---- MODULE Spec2Model ----
(***************************************************************************)
(* openproxy: the relay (internal/server), the agent's control session     *)
(* (internal/client) and the wire protocol (internal/protocol).            *)
(*                                                                         *)
(* Spec      the relay's registries, control connections, public           *)
(*           connections and bridges, with peers that send it anything.    *)
(* RegSpec   the control plane: the relay with the agent's session         *)
(*           (dial, authenticate, register, heartbeat, reconnect).         *)
(* WireSpec  one data connection byte by byte: the claim message, the      *)
(*           relay's decoder and the two copies of the bridge.             *)
(* AddSpec   the agent's session with the dashboard's add-tunnel requests  *)
(*           and the public connections of the tunnels they add.           *)
(***************************************************************************)
EXTENDS Integers, Sequences, FiniteSets, TLC

\* ------------------------------------------------------------- bounds
NConn == 2       \* connections the relay's control port accepts
NPub == 2        \* public connections the tunnel listeners accept
NPorts == 2      \* ports a register-tunnel request may name: 1..NPorts
MaxClock == 1    \* readings of time.Now().UnixNano() are 0..MaxClock
MaxQueue == 2    \* unread messages on the agent's control connection
MaxLen == 2      \* payload bytes a bridge carries in each direction
NAdd == 2        \* add requests the dashboard handles

Conns == 1..NConn
Pubs == 1..NPub
Ports == 1..NPorts
IDs == 0..MaxClock
Names == {"a", "b"}
Tokens == {"T", "X"}

\* The relay's configured token (config.ServerConfig.Token).
ConfigToken == "T"

\* ------------------------------------------------- protocol (wire types)
TypeAuth == "auth"
TypeAuthResp == "auth_resp"
TypeRegTunnel == "reg_tunnel"
TypeRegResp == "reg_resp"
TypeNewConn == "new_conn"
TypeProxyData == "proxy_data"
TypePing == "ping"
TypePong == "pong"

\* What one Decode on a control connection can return to the relay: a
\* message of the catalogue (valid: whether json.Unmarshal of its payload
\* succeeds), a message of a type outside it, or an error (end-of-stream or
\* malformed data).
AuthMsgs == [type : {TypeAuth}, valid : BOOLEAN, Token : Tokens]
RegMsgs == [type : {TypeRegTunnel}, valid : BOOLEAN, Name : Names, RemotePort : Ports]
ProxyMsgs == [type : {TypeProxyData}, valid : BOOLEAN, ConnID : IDs]
PlainMsgs == [type : {TypePing, TypePong, "unknown"}]
ReadErrors == [type : {"EOF", "malformed"}]
Inputs == AuthMsgs \cup RegMsgs \cup ProxyMsgs \cup PlainMsgs \cup ReadErrors

\* ------------------------------------------- config.ServerConfig.PortRange
\* A string is a sequence of one-character strings.
Digits == <<"0", "1", "2", "3", "4", "5", "6", "7", "8", "9">>

IsDigit(ch) == \E i \in 1..Len(Digits) : Digits[i] = ch

DigitVal(ch) == (CHOOSE i \in 1..Len(Digits) : Digits[i] = ch) - 1

\* strconv.Atoi with its error dropped (min, _ := strconv.Atoi(..)): the
\* value of a non-empty digit string, 0 for anything else.
RECURSIVE AtoiFrom(_, _, _)
AtoiFrom(s, i, acc) ==
    IF i > Len(s) THEN acc
    ELSE IF ~IsDigit(s[i]) THEN 0
    ELSE AtoiFrom(s, i + 1, acc * 10 + DigitVal(s[i]))

Atoi(s) == IF s = <<>> THEN 0 ELSE AtoiFrom(s, 1, 0)

\* strings.Split(s, "-")
RECURSIVE SplitFrom(_, _, _, _)
SplitFrom(s, i, cur, acc) ==
    IF i > Len(s) THEN Append(acc, cur)
    ELSE IF s[i] = "-" THEN SplitFrom(s, i + 1, <<>>, Append(acc, cur))
    ELSE SplitFrom(s, i + 1, Append(cur, s[i]), acc)

Split(s) == SplitFrom(s, 1, <<>>, <<>>)

\* handleRegisterTunnel's port-range validation: whether the request is
\* refused as out of range.
OutOfRange(range, port) ==
    /\ range # <<>>
    /\ Len(Split(range)) = 2
    /\ \/ port < Atoi(Split(range)[1])
       \/ port > Atoi(Split(range)[2])

\* The allowed range as the protocol states it: no range admits every port,
\* a range "lo-hi" admits the ports from lo to hi, bounds included.
RangeAdmits(range, port) ==
    \/ range = <<>>
    \/ /\ Len(Split(range)) = 2
       /\ \A i \in 1..2 :
              /\ Split(range)[i] # <<>>
              /\ \A j \in 1..Len(Split(range)[i]) : IsDigit(Split(range)[i][j])
       /\ Atoi(Split(range)[1]) <= port
       /\ port <= Atoi(Split(range)[2])

\* A port outside a configured range: below every number the range value
\* names, or above every one of them.
RangeOutside(range, port) ==
    /\ range # <<>>
    /\ \/ \A i \in 1..Len(Split(range)) : port < Atoi(Split(range)[i])
       \/ \A i \in 1..Len(Split(range)) : port > Atoi(Split(range)[i])

\* The values of port_range the model is started with.
RangeValues ==
    { <<>>,
      <<"1", "-", "1">>,
      <<"1", "-", "1", "0">>,
      <<"2">>,
      <<"-", "2">> }

\* ---------------------------------------------------------------- state
VARIABLES
    portRange,      \* Server.Config.PortRange
    cstate,         \* per control-port connection: where handleControlConnection is
    kind,           \* per connection: dialled by the agent ("agent") or by another peer
    goodAuth,       \* per connection: its first message was an authenticate
                    \* request with the configured token
    authResp,       \* per connection: the authenticate-response handshake wrote
    toRelay,        \* per agent connection: what the agent wrote, not yet read
    toAgent,        \* per agent connection: what the relay wrote, not yet read
    dropped,        \* per agent connection: the network lost it
    tunnels,        \* the Tunnel objects, in the order they were created
    tunnelMgr,      \* Server.tunnelMgr.tunnels: name -> Tunnel (0: no entry)
    pendingConns,   \* Server.pendingConns: connID -> PendingConn
    now,            \* the reading time.Now().UnixNano() returns
    ppc,            \* per public connection: where handlePublicConnection is
    pid,            \* per public connection: its connID
    ptun,           \* per public connection: the Tunnel that accepted it
    closes,         \* per public connection: how often the relay closed it
    timer,          \* per public connection: its time.AfterFunc
    bpub,           \* per bridging connection: the public connection bridged
    btun,           \* per bridging connection: the bridged connection's Tunnel
    upDone,         \* per bridging connection: io.Copy(publicConn, clientConn) returned
    acfg,           \* Client.Config.Tunnels
    apc,            \* where the agent's main goroutine is (main's loop, Start)
    aidx,           \* Start's position in Config.Tunnels
    aconn,          \* Client.controlConn (0: nil)
    ares,           \* what registerTunnel returned for each tunnel of this session
    hb,             \* the heartbeat goroutines running
    alen,           \* the length of Config.Tunnels Start's range loop runs over
    newConns,       \* the handleNewConn goroutines: notification and progress
    mu,             \* Client.mu: the dashboard request whose AddTunnel holds it
                    \* across its read (0: free)
    dpc,            \* per dashboard request: where handleTunnels is
    dtun,           \* per dashboard request: the tunnel it posts
    dsnap,          \* per dashboard request: the slice its append has read
    wAgent,         \* one data connection: where the agent's handleNewConn is
    wRelay,         \* the same connection: where the relay's handler is
    wire,           \* bytes the agent wrote on it, not yet read by the relay
    dbuf,           \* bytes the command loop's json.Decoder has read
    upIn,           \* payload bytes the agent has written on it
    upOut,          \* bytes the relay has written to the public connection
    pwire,          \* bytes the public client wrote, not yet read by the relay
    dnIn,           \* bytes the public client has written
    dnOut           \* bytes the relay has written to the data connection

connVars == <<cstate, kind, goodAuth, authResp, toRelay, toAgent, dropped>>
tunnelVars == <<tunnels, tunnelMgr>>
pubVars == <<pendingConns, now, ppc, pid, ptun, closes, timer>>
bridgeVars == <<bpub, btun, upDone>>
agentVars == <<acfg, apc, aidx, aconn, ares, hb>>
dashVars == <<mu, dpc, dtun, dsnap>>
wireVars == <<wAgent, wRelay, wire, dbuf, upIn, upOut, pwire, dnIn, dnOut>>
vars == <<portRange, connVars, tunnelVars, pubVars, bridgeVars, agentVars, alen, newConns,
          dashVars, wireVars>>

\* The agent's configuration: client.tunnels and client.token.
AgentTunnels == << [Name |-> "a", RemotePort |-> 1], [Name |-> "b", RemotePort |-> 2] >>
AgentToken == "T"

\* The dashboard's add requests, and the tunnels they post: one whose name
\* is configured and one whose name is new.
Adds == 1..NAdd
DynTunnels == { [Name |-> "a", RemotePort |-> 1], [Name |-> "c", RemotePort |-> NPorts + 1] }
NoTunnel == [Name |-> "", RemotePort |-> 0]

\* NewServer and NewClient, before either Start has done anything.
InitState ==
    /\ cstate = [c \in Conns |-> "none"]
    /\ kind = [c \in Conns |-> "peer"]
    /\ goodAuth = [c \in Conns |-> FALSE]
    /\ authResp = [c \in Conns |-> "none"]
    /\ toRelay = [c \in Conns |-> <<>>]
    /\ toAgent = [c \in Conns |-> <<>>]
    /\ dropped = [c \in Conns |-> FALSE]
    /\ tunnels = <<>>
    /\ tunnelMgr = [n \in Names \cup {t.Name : t \in DynTunnels} |-> 0]
    /\ pendingConns = <<>>
    /\ now = 0
    /\ ppc = [p \in Pubs |-> "none"]
    /\ pid = [p \in Pubs |-> 0]
    /\ ptun = [p \in Pubs |-> 0]
    /\ closes = [p \in Pubs |-> 0]
    /\ timer = [p \in Pubs |-> "off"]
    /\ bpub = [c \in Conns |-> 0]
    /\ btun = [c \in Conns |-> 0]
    /\ upDone = [c \in Conns |-> FALSE]
    /\ acfg = AgentTunnels
    /\ apc = "idle"
    /\ aidx = 0
    /\ aconn = 0
    /\ ares = <<>>
    /\ hb = 0
    /\ alen = 0
    /\ newConns = {}
    /\ mu = 0
    /\ dpc = [r \in Adds |-> "idle"]
    /\ dtun = [r \in Adds |-> NoTunnel]
    /\ dsnap = [r \in Adds |-> <<>>]
    /\ wAgent = "claim"
    /\ wRelay = "decode"
    /\ wire = <<>>
    /\ dbuf = <<>>
    /\ upIn = <<>>
    /\ upOut = <<>>
    /\ pwire = <<>>
    /\ dnIn = <<>>
    /\ dnOut = <<>>

\* ------------------------------------------------------------ helpers
\* delete(m, k) on a Go map.
MapDelete(m, k) == [i \in DOMAIN m \ {k} |-> m[i]]

\* m[k] = v on a Go map: an existing entry is overwritten.
MapPut(m, k, v) == [i \in DOMAIN m \cup {k} |-> IF i = k THEN v ELSE m[i]]

\* atomic.AddInt64(&tunnels[t].ActiveConns, d)
AddActive(ts, t, d) == [ts EXCEPT ![t].ActiveConns = @ + d]

\* net.Listen("tcp", ":port") succeeds: no open listener holds the port.
PortFree(port) ==
    \A i \in 1..Len(tunnels) :
        tunnels[i].RemotePort = port => tunnels[i].Listener # "open"

\* A write of the relay on connection c succeeds: the relay has not closed
\* it and the network has not lost it.
Writable(c) == cstate[c] \in {"handshake", "ready", "bridging"} /\ ~dropped[c]

\* The mutant of Send: the message is put before those not yet read.
SendFirst(q, c, m) ==
    IF Writable(c) /\ c = aconn THEN [q EXCEPT ![c] = <<m>> \o @] ELSE q

\* protocol.WriteMessage(conn, ...) by the relay with its error dropped. What
\* is written to the agent is kept until the agent reads it; what is written
\* to a connection the agent has closed is lost.
Send(q, c, m) ==
    IF Writable(c) /\ c = aconn THEN [q EXCEPT ![c] = Append(@, m)] ELSE q

\* The first n elements of q dropped.
Drop(q, n) == SubSeq(q, n + 1, Len(q))

\* One Decode of the relay on connection c returns m and takes k messages
\* off the agent's stream. Another peer may have sent anything. The agent's
\* stream yields what the agent wrote, in order, then end-of-stream once the
\* agent has closed the connection or the network has lost it. A decoder
\* reads ahead: the k - 1 messages after the decoded one stay in its buffer.
Recv(c, m, k) ==
    IF kind[c] = "agent"
    THEN IF toRelay[c] # <<>>
         THEN /\ k \in 1..Len(toRelay[c])
              /\ m = Head(toRelay[c])
              /\ toRelay' = [toRelay EXCEPT ![c] = Drop(@, k)]
         ELSE /\ k = 0
              /\ dropped[c] \/ aconn # c
              /\ m = [type |-> "EOF"]
              /\ UNCHANGED toRelay
    ELSE /\ k = 0
         /\ UNCHANGED toRelay

\* Start's accept loop: the next connection to the control port, from a
\* peer other than the agent.
AcceptControl(c) ==
    /\ cstate[c] = "none"
    /\ \A d \in Conns : d < c => cstate[d] # "none"
    /\ cstate' = [cstate EXCEPT ![c] = "handshake"]
    /\ UNCHANGED <<wireVars, dashVars, newConns, alen, authResp, portRange, kind, goodAuth, toRelay, toAgent, dropped, tunnelVars,
                   pubVars, bridgeVars, agentVars>>

\* The mutant of HandshakeAccepts: the token is not compared.
HandshakeAcceptsAnyToken(m) == m.type = TypeAuth /\ m.valid

\* handshake returns nil: an authenticate request with the configured token.
HandshakeAccepts(m) == m.type = TypeAuth /\ m.valid /\ m.Token = ConfigToken

\* handshake writes a failure response: only on a token mismatch.
HandshakeRefuses(m) == m.type = TypeAuth /\ m.valid /\ m.Token # ConfigToken

\* handleControlConnection, step 1: handshake(conn) on m, what its decoder
\* returned, and the deferred conn.Close() when it fails. The handshake's
\* decoder is dropped with whatever it read ahead.
Handshake(c, m, k) ==
    /\ cstate[c] = "handshake"
    /\ Recv(c, m, k)
    /\ goodAuth' = [goodAuth EXCEPT ![c] =
                        m.type = TypeAuth /\ m.valid /\ m.Token = ConfigToken]
    /\ IF HandshakeAccepts(m)
       THEN /\ toAgent' = Send(toAgent, c, [type |-> TypeAuthResp, Success |-> TRUE])
            /\ cstate' = [cstate EXCEPT ![c] = "ready"]
       ELSE /\ toAgent' = IF HandshakeRefuses(m)
                          THEN Send(toAgent, c, [type |-> TypeAuthResp, Success |-> FALSE])
                          ELSE toAgent
            /\ cstate' = [cstate EXCEPT ![c] = "closed"]
    /\ authResp' = [authResp EXCEPT ![c] =
                        IF HandshakeAccepts(m) THEN "ok"
                        ELSE IF HandshakeRefuses(m) THEN "fail" ELSE "none"]
    /\ UNCHANGED <<wireVars, dashVars, newConns, alen, portRange, kind, dropped,
                   tunnelVars, pubVars, bridgeVars, agentVars>>

\* handleRegisterTunnel: the response it writes.
RegisterResponse(req) ==
    IF OutOfRange(portRange, req.RemotePort)
    THEN [type |-> TypeRegResp, Name |-> req.Name, Success |-> FALSE, RemotePort |-> 0]
    ELSE [type |-> TypeRegResp, Name |-> req.Name, Success |-> PortFree(req.RemotePort),
          RemotePort |-> req.RemotePort]

\* handleRegisterTunnel: the Tunnel it creates when the port is in range and
\* net.Listen succeeds.
NewTunnel(c, req) ==
    [Name |-> req.Name, RemotePort |-> req.RemotePort, Listener |-> "open",
     ControlConn |-> c, ActiveConns |-> 0]

\* handleRegisterTunnel goes on to net.Listen, and net.Listen succeeds.
RegisterBinds(req) == ~OutOfRange(portRange, req.RemotePort) /\ PortFree(req.RemotePort)

\* handleRegisterTunnel(controlConn, req)
HandleRegisterTunnel(c, req) ==
    /\ IF RegisterBinds(req)
       THEN /\ tunnels' = Append(tunnels, NewTunnel(c, req))
            /\ tunnelMgr' = [tunnelMgr EXCEPT ![req.Name] = Len(tunnels) + 1]
       ELSE UNCHANGED <<tunnels, tunnelMgr>>
    /\ toAgent' = Send(toAgent, c, RegisterResponse(req))
    /\ UNCHANGED <<wireVars, dashVars, newConns, alen, authResp, portRange, cstate, kind, goodAuth, dropped, pubVars, bridgeVars,
                   agentVars>>

\* The mutant of HandleProxyData: a miss empties the pending registry.
HandleProxyDataMissSweeps(c, req) ==
    /\ IF req.ConnID \in DOMAIN pendingConns
       THEN /\ pendingConns' = MapDelete(pendingConns, req.ConnID)
            /\ bpub' = [bpub EXCEPT ![c] = pendingConns[req.ConnID].Conn]
            /\ btun' = [btun EXCEPT ![c] = pendingConns[req.ConnID].Tunnel]
            /\ cstate' = [cstate EXCEPT ![c] = "bridging"]
       ELSE /\ cstate' = [cstate EXCEPT ![c] = "closed"]
            /\ pendingConns' = <<>>
            /\ UNCHANGED <<bpub, btun>>
    /\ UNCHANGED <<wireVars, dashVars, newConns, alen, authResp, portRange, kind, goodAuth, toAgent, dropped, tunnelVars, now,
                   ppc, pid, ptun, closes, timer, upDone, agentVars>>

\* handleProxyData(clientConn, req) up to the start of the bridge; on a miss
\* it returns and handleControlConnection's deferred conn.Close() runs.
HandleProxyData(c, req) ==
    /\ IF req.ConnID \in DOMAIN pendingConns
       THEN /\ pendingConns' = MapDelete(pendingConns, req.ConnID)
            /\ bpub' = [bpub EXCEPT ![c] = pendingConns[req.ConnID].Conn]
            /\ btun' = [btun EXCEPT ![c] = pendingConns[req.ConnID].Tunnel]
            /\ cstate' = [cstate EXCEPT ![c] = "bridging"]
       ELSE /\ cstate' = [cstate EXCEPT ![c] = "closed"]
            /\ UNCHANGED <<pendingConns, bpub, btun>>
    /\ UNCHANGED <<wireVars, dashVars, newConns, alen, authResp, portRange,
                   kind, goodAuth, toAgent, dropped, tunnelVars, now, ppc, pid,
                   ptun, closes, timer, upDone, agentVars>>

\* The command loop returns: handleControlConnection's deferred conn.Close().
\* Nothing is done about the tunnels the connection registered.
ControlExit(c) ==
    /\ cstate' = [cstate EXCEPT ![c] = "closed"]
    /\ UNCHANGED <<wireVars, dashVars, newConns, alen, authResp, portRange, kind, goodAuth, toAgent, dropped, tunnelVars, pubVars,
                   bridgeVars, agentVars>>

\* The mutant of ControlSkip: the Tunnel Registry is emptied.
ControlSkipForgets ==
    /\ tunnelMgr' = [n \in DOMAIN tunnelMgr |-> 0]
    /\ UNCHANGED <<wireVars, dashVars, newConns, alen, authResp, portRange, cstate, kind, goodAuth, toAgent, dropped, tunnels,
                   pubVars, bridgeVars, agentVars>>

\* The command loop goes round without doing anything.
ControlSkip ==
    UNCHANGED <<wireVars, dashVars, newConns, alen, authResp, portRange,
                cstate, kind, goodAuth, toAgent, dropped, tunnelVars, pubVars,
                bridgeVars, agentVars>>

\* handleControlConnection, step 2: one turn of the command loop on m, what
\* decoder.Decode returned.
ControlRead(c, m, k) ==
    /\ cstate[c] = "ready"
    /\ k <= 1
    /\ Recv(c, m, k)
    /\ CASE m.type \in {"EOF", "malformed"} -> ControlExit(c)
         [] m.type = TypeRegTunnel ->
              IF m.valid THEN HandleRegisterTunnel(c, m) ELSE ControlSkip
         [] m.type = TypePing ->
              /\ toAgent' = Send(toAgent, c, [type |-> TypePong])
              /\ UNCHANGED <<wireVars, dashVars, newConns, alen, authResp, portRange, cstate, kind, goodAuth, dropped, tunnelVars,
                             pubVars, bridgeVars, agentVars>>
         [] m.type = TypeProxyData ->
              IF m.valid THEN HandleProxyData(c, m) ELSE ControlExit(c)
         [] OTHER -> ControlSkip

\* ------------------------------------------------- public connections
\* fmt.Sprintf("%d", time.Now().UnixNano())
NewConnID(p) == now

\* The clock advances.
Tick ==
    /\ now < MaxClock
    /\ now' = now + 1
    /\ UNCHANGED <<wireVars, dashVars, newConns, alen, authResp, portRange,
                   connVars, tunnelVars, pendingConns, ppc, pid, ptun, closes,
                   timer, bridgeVars, agentVars>>

\* acceptTunnelConnections(t): Listener.Accept returns the next public
\* connection p, and handlePublicConnection(t, p) runs up to the insertion
\* into pendingConns.
TunnelAccept(t, p) ==
    /\ t \in 1..Len(tunnels)
    /\ tunnels[t].Listener = "open"
    /\ ppc[p] = "none"
    /\ \A q \in Pubs : q < p => ppc[q] # "none"
    /\ ptun' = [ptun EXCEPT ![p] = t]
    /\ tunnels' = AddActive(tunnels, t, 1)
    /\ pid' = [pid EXCEPT ![p] = NewConnID(p)]
    /\ pendingConns' = MapPut(pendingConns, NewConnID(p), [Conn |-> p, Tunnel |-> t])
    /\ ppc' = [ppc EXCEPT ![p] = "inserted"]
    /\ UNCHANGED <<wireVars, dashVars, newConns, alen, authResp, portRange, connVars, tunnelMgr, now, closes, timer, bridgeVars,
                   agentVars>>

\* handlePublicConnection: the new-connection notification; on success the
\* expiry timer is armed, on failure the rollback follows.
PubNotify(p) ==
    /\ ppc[p] = "inserted"
    /\ IF Writable(tunnels[ptun[p]].ControlConn)
       THEN /\ toAgent' = Send(toAgent, tunnels[ptun[p]].ControlConn,
                               [type |-> TypeNewConn, ConnID |-> pid[p],
                                TunnelName |-> tunnels[ptun[p]].Name])
            /\ timer' = [timer EXCEPT ![p] = "armed"]
            /\ ppc' = [ppc EXCEPT ![p] = "notified"]
       ELSE /\ ppc' = [ppc EXCEPT ![p] = "rollback"]
            /\ UNCHANGED <<toAgent, timer>>
    /\ UNCHANGED <<wireVars, dashVars, newConns, alen, authResp, portRange, cstate, kind, goodAuth, toRelay, dropped, tunnelVars,
                   pendingConns, now, pid, ptun, closes, bridgeVars, agentVars>>

\* handlePublicConnection: the rollback after a failed notification.
PubRollback(p) ==
    /\ ppc[p] = "rollback"
    /\ pendingConns' = MapDelete(pendingConns, pid[p])
    /\ closes' = [closes EXCEPT ![p] = @ + 1]
    /\ tunnels' = AddActive(tunnels, ptun[p], -1)
    /\ ppc' = [ppc EXCEPT ![p] = "rolledback"]
    /\ UNCHANGED <<wireVars, dashVars, newConns, alen, authResp, portRange, connVars, tunnelMgr, now, pid, ptun, timer, bridgeVars,
                   agentVars>>

\* The function handed to time.AfterFunc(10*time.Second, ..) runs.
Expire(p) ==
    /\ timer[p] = "armed"
    /\ timer' = [timer EXCEPT ![p] = "fired"]
    /\ IF pid[p] \in DOMAIN pendingConns
       THEN /\ closes' = [closes EXCEPT ![pendingConns[pid[p]].Conn] = @ + 1]
            /\ pendingConns' = MapDelete(pendingConns, pid[p])
            /\ tunnels' = AddActive(tunnels, pendingConns[pid[p]].Tunnel, -1)
       ELSE UNCHANGED <<closes, pendingConns, tunnels>>
    /\ UNCHANGED <<wireVars, dashVars, newConns, alen, authResp, portRange, connVars, tunnelMgr, now, ppc, pid, ptun, bridgeVars,
                   agentVars>>

\* ------------------------------------------------------------ the bridge
\* go io.Copy(publicConn, clientConn) returns: the agent closed its end of
\* the data connection. Nothing follows it: handleProxyData waits for the
\* other copy only.
BridgeUp(c) ==
    /\ cstate[c] = "bridging"
    /\ ~upDone[c]
    /\ upDone' = [upDone EXCEPT ![c] = TRUE]
    /\ UNCHANGED <<wireVars, dashVars, newConns, alen, authResp, portRange, connVars, tunnelVars, pubVars, bpub, btun, agentVars>>

\* io.Copy(clientConn, publicConn) can return with nothing more from the
\* public client: publicConn is already closed on the relay's side.
DownCanEnd(c) == closes[bpub[c]] > 0

\* handleProxyData's deferred function, then handleControlConnection's
\* deferred conn.Close(): the handler and its bridge are over.
FinishBridge(c) ==
    /\ closes' = [closes EXCEPT ![bpub[c]] = @ + 1]
    /\ tunnels' = AddActive(tunnels, btun[c], -1)
    /\ cstate' = [cstate EXCEPT ![c] = "closed"]
    /\ bpub' = [bpub EXCEPT ![c] = 0]
    /\ btun' = [btun EXCEPT ![c] = 0]
    /\ upDone' = [upDone EXCEPT ![c] = FALSE]
    /\ UNCHANGED <<wireVars, dashVars, newConns, alen, authResp, portRange, kind, goodAuth, toRelay, toAgent, dropped, tunnelMgr,
                   pendingConns, now, ppc, pid, ptun, timer, agentVars>>

\* io.Copy(clientConn, publicConn) returns by itself.
BridgeDown(c) ==
    /\ cstate[c] = "bridging"
    /\ DownCanEnd(c)
    /\ FinishBridge(c)

\* io.Copy(clientConn, publicConn) returns on what the public client does:
\* it closes its end, or it sends bytes after the agent closed the data
\* connection and the write fails.
BridgeDownOnPublicPeer(c) ==
    /\ cstate[c] = "bridging"
    /\ ~DownCanEnd(c)
    /\ FinishBridge(c)

\* ------------------------------------------------------------ the agent
\* What the next Decode of the agent on its control connection returns: the
\* oldest unread message of the relay, or an error once there is none and
\* the connection is closed or lost.
AgentCanRead ==
    /\ aconn # 0
    /\ toAgent[aconn] # <<>> \/ dropped[aconn] \/ cstate[aconn] = "closed"

AgentMsg == IF toAgent[aconn] # <<>> THEN Head(toAgent[aconn]) ELSE [type |-> "EOF"]

\* A decoder of the agent takes k messages off the stream to decode one.
AgentTake(k) ==
    /\ IF toAgent[aconn] = <<>> THEN k = 0 ELSE k \in 1..Len(toAgent[aconn])
    /\ toAgent' = [toAgent EXCEPT ![aconn] = Drop(@, k)]

\* protocol.WriteMessage(conn, ..) by the agent: an error on a lost
\* connection; what is written to a connection the relay has closed is lost.
AgentWrite(q, c, m) ==
    IF cstate[c] = "closed" THEN q ELSE [q EXCEPT ![c] = Append(@, m)]

\* main's loop calls Start: net.Dial, which the relay's accept loop answers
\* with a handler, then authenticate's request.
AgentDial(c) ==
    /\ apc = "idle"
    /\ cstate[c] = "none"
    /\ \A d \in Conns : d < c => cstate[d] # "none"
    /\ cstate' = [cstate EXCEPT ![c] = "handshake"]
    /\ kind' = [kind EXCEPT ![c] = "agent"]
    /\ aconn' = c
    /\ toRelay' = [toRelay EXCEPT ![c] =
                       <<[type |-> TypeAuth, valid |-> TRUE, Token |-> AgentToken]>>]
    /\ apc' = "auth"
    /\ aidx' = 0
    /\ ares' = <<>>
    /\ UNCHANGED <<wireVars, dashVars, newConns, alen, authResp, portRange,
                   goodAuth, toAgent, dropped, tunnelVars, pubVars, bridgeVars,
                   acfg, hb>>

\* Start returns: its deferred function takes Client.mu, clears controlConn
\* and closes the connection; main's loop sleeps and calls Start again.
AgentStop ==
    /\ mu = 0
    /\ aconn' = 0
    /\ apc' = "idle"
    /\ toAgent' = [toAgent EXCEPT ![aconn] = <<>>]

\* Start after authenticate returned nil, and after each registerTunnel: the
\* next tunnel of Config.Tunnels, or the heartbeat and the command loop. The
\* range loop runs over the slice as it was when the loop began.
AgentAdvance ==
    LET n == IF aidx = 0 THEN Len(acfg) ELSE alen
    IN  /\ alen' = n
        /\ IF aidx < n
           THEN /\ aidx' = aidx + 1
                /\ apc' = "reg"
                /\ UNCHANGED hb
           ELSE /\ apc' = "loop"
                /\ hb' = hb + 1
                /\ UNCHANGED aidx

\* authenticate, from its Decode on.
AgentAuthRead(k) ==
    /\ apc = "auth"
    /\ AgentCanRead
    /\ IF AgentMsg.type = TypeAuthResp /\ AgentMsg.Success
       THEN /\ AgentTake(k)
            /\ AgentAdvance
            /\ UNCHANGED aconn
       ELSE /\ k = 0
            /\ AgentStop
            /\ UNCHANGED <<aidx, hb, alen>>
    /\ UNCHANGED <<wireVars, dashVars, newConns, authResp, portRange,
                   cstate, kind, goodAuth, toRelay, dropped, tunnelVars, pubVars,
                   bridgeVars, acfg, ares>>

\* The mutant of RegisterFailed: a failed registration ends the session.
RegisterFailedReturns(err) == IF err THEN "return" ELSE "next"

\* Start's loop over Config.Tunnels: what follows registerTunnel's result.
RegisterFailed(err) == IF err THEN "continue" ELSE "next"

\* Start with registerTunnel's result: the session ends, or goes on.
AgentRegistered(err) ==
    /\ ares' = Append(ares, IF err THEN "err" ELSE "ok")
    /\ IF RegisterFailed(err) = "return"
       THEN /\ aconn' = 0
            /\ apc' = "idle"
            /\ UNCHANGED <<aidx, hb, alen>>
       ELSE /\ AgentAdvance
            /\ UNCHANGED aconn

\* registerTunnel(conn, Config.Tunnels[aidx]), up to its Decode.
AgentRegister ==
    /\ apc = "reg"
    /\ IF dropped[aconn]
       THEN /\ AgentRegistered(TRUE)
            /\ UNCHANGED toRelay
       ELSE /\ toRelay' = AgentWrite(toRelay, aconn,
                                     [type |-> TypeRegTunnel, valid |-> TRUE,
                                      Name |-> acfg[aidx].Name,
                                      RemotePort |-> acfg[aidx].RemotePort])
            /\ apc' = "regwait"
            /\ UNCHANGED <<aidx, aconn, ares, hb, alen>>
    /\ UNCHANGED <<wireVars, dashVars, newConns, authResp, portRange,
                   cstate, kind, goodAuth, toAgent, dropped, tunnelVars, pubVars,
                   bridgeVars, acfg>>

\* registerTunnel, from its Decode on.
AgentRegRead(k) ==
    /\ apc = "regwait"
    /\ AgentCanRead
    /\ AgentTake(k)
    /\ AgentRegistered(~(AgentMsg.type = TypeRegResp /\ AgentMsg.Success))
    /\ UNCHANGED <<wireVars, dashVars, newConns, authResp, portRange,
                   cstate, kind, goodAuth, toRelay, dropped, tunnelVars, pubVars,
                   bridgeVars, acfg>>

\* Start's command loop: one Decode of its decoder, which keeps what it
\* read ahead. A new-connection notification starts handleNewConn.
AgentLoopRead ==
    /\ apc = "loop"
    /\ AgentCanRead
    /\ IF AgentMsg.type = "EOF"
       THEN /\ AgentStop
            /\ UNCHANGED newConns
       ELSE /\ AgentTake(1)
            /\ newConns' = IF AgentMsg.type = TypeNewConn
                           THEN newConns \cup {[ConnID |-> AgentMsg.ConnID,
                                                TunnelName |-> AgentMsg.TunnelName,
                                                st |-> "spawned"]}
                           ELSE newConns
            /\ UNCHANGED <<aconn, apc>>
    /\ UNCHANGED <<wireVars, dashVars, alen, authResp, portRange,
                   cstate, kind, goodAuth, toRelay, dropped, tunnelVars, pubVars,
                   bridgeVars, acfg, aidx, ares, hb>>

\* heartbeat: one tick of one of the heartbeat goroutines. It takes
\* Client.mu to read Client.controlConn and writes to it, whichever
\* connection that is by now.
Heartbeat ==
    /\ hb > 0
    /\ mu = 0
    /\ IF aconn = 0 \/ dropped[aconn]
       THEN /\ hb' = hb - 1
            /\ UNCHANGED toRelay
       ELSE /\ Len(toRelay[aconn]) + Len(toAgent[aconn]) < MaxQueue
            /\ toRelay' = AgentWrite(toRelay, aconn, [type |-> TypePing])
            /\ UNCHANGED hb
    /\ UNCHANGED <<wireVars, dashVars, newConns, alen, authResp, portRange,
                   cstate, kind, goodAuth, toAgent, dropped, tunnelVars, pubVars,
                   bridgeVars, acfg, apc, aidx, aconn, ares>>

\* The network loses the agent's control connection: both ends get errors
\* from then on, and what was in flight is gone.
NetDrop ==
    /\ aconn # 0
    /\ ~dropped[aconn]
    /\ cstate[aconn] # "closed"
    /\ dropped' = [dropped EXCEPT ![aconn] = TRUE]
    /\ toRelay' = [toRelay EXCEPT ![aconn] = <<>>]
    /\ toAgent' = [toAgent EXCEPT ![aconn] = <<>>]
    /\ UNCHANGED <<wireVars, dashVars, newConns, alen, authResp, portRange, cstate, kind, goodAuth, tunnelVars, pubVars, bridgeVars,
                   agentVars>>

\* ------------------------------------------------- the dashboard's adds
\* handleNewConn: the lookup of the notification's tunnel in Config.Tunnels
\* as it is now; an unknown name is dropped, a known one goes on to dial.
HandleNewConn(nc) ==
    /\ nc \in newConns
    /\ nc.st = "spawned"
    /\ newConns' = (newConns \ {nc}) \cup
           {[nc EXCEPT !.st = IF \E i \in 1..Len(acfg) : acfg[i].Name = nc.TunnelName
                              THEN "dial" ELSE "unknown"]}
    /\ UNCHANGED <<wireVars, dashVars, alen, authResp, portRange,
                   cstate, kind, goodAuth, toRelay, toAgent, dropped, tunnelVars, pubVars,
                   bridgeVars, agentVars>>

\* handleTunnels, POST of tunnel t: Client.AddTunnel under Client.mu, which
\* refuses a configured name and, on a connected agent, sends the
\* register-tunnel request; to registerTunnel's Decode, or to AddTunnel's
\* return.
DashAddTunnel(r, t) ==
    /\ dpc[r] = "idle"
    /\ \A q \in Adds : q < r => dpc[q] # "idle"
    /\ mu = 0
    /\ dtun' = [dtun EXCEPT ![r] = t]
    /\ IF \E i \in 1..Len(acfg) : acfg[i].Name = t.Name
       THEN /\ dpc' = [dpc EXCEPT ![r] = "error"]
            /\ UNCHANGED <<mu, toRelay>>
       ELSE IF aconn = 0
       THEN /\ dpc' = [dpc EXCEPT ![r] = "append"]
            /\ UNCHANGED <<mu, toRelay>>
       ELSE IF dropped[aconn]
       THEN /\ dpc' = [dpc EXCEPT ![r] = "error"]
            /\ UNCHANGED <<mu, toRelay>>
       ELSE /\ toRelay' = AgentWrite(toRelay, aconn,
                                     [type |-> TypeRegTunnel, valid |-> TRUE,
                                      Name |-> t.Name, RemotePort |-> t.RemotePort])
            /\ dpc' = [dpc EXCEPT ![r] = "wait"]
            /\ mu' = r
    /\ UNCHANGED <<wireVars, dsnap, newConns, alen, authResp, portRange,
                   cstate, kind, goodAuth, toAgent, dropped, tunnelVars, pubVars,
                   bridgeVars, agentVars>>

\* AddTunnel's registerTunnel from its Decode on, and AddTunnel's return,
\* which releases Client.mu.
DashAddRead(r, k) ==
    /\ dpc[r] = "wait"
    /\ AgentCanRead
    /\ AgentTake(k)
    /\ dpc' = [dpc EXCEPT ![r] = IF AgentMsg.type = TypeRegResp /\ AgentMsg.Success
                                 THEN "append" ELSE "error"]
    /\ mu' = 0
    /\ UNCHANGED <<wireVars, dtun, dsnap, newConns, alen, authResp, portRange,
                   cstate, kind, goodAuth, toRelay, dropped, tunnelVars, pubVars,
                   bridgeVars, agentVars>>

\* handleTunnels after AddTunnel returned nil: append(h.Config.Client.Tunnels,
\* t) reads the slice. Nothing orders it with the other requests.
DashAppendLoad(r) ==
    /\ dpc[r] = "append"
    /\ dsnap' = [dsnap EXCEPT ![r] = acfg]
    /\ dpc' = [dpc EXCEPT ![r] = "store"]
    /\ UNCHANGED <<wireVars, mu, dtun, newConns, alen, authResp, portRange,
                   connVars, tunnelVars, pubVars, bridgeVars, agentVars>>

\* handleTunnels: the slice with the tunnel appended is stored.
DashAppendStore(r) ==
    /\ dpc[r] = "store"
    /\ acfg' = Append(dsnap[r], dtun[r])
    /\ dsnap' = [dsnap EXCEPT ![r] = <<>>]
    /\ dpc' = [dpc EXCEPT ![r] = "ok"]
    /\ UNCHANGED <<wireVars, mu, dtun, newConns, alen, authResp, portRange,
                   connVars, tunnelVars, pubVars, bridgeVars, apc, aidx, aconn, ares, hb>>

\* ------------------------------------------- one data connection's bytes
\* Payload bytes, and the bytes of a claim-data-connection message as
\* json.Encoder.Encode writes it: a JSON object and a newline.
Bytes == {"x", "y"}
ClaimBytes == <<"{", "}", "\n">>

\* json.Decoder has a whole value in its buffer: the object's closing brace.
HasValue(buf) == \E i \in 1..Len(buf) : buf[i] = "}"

relayState == <<portRange, connVars, tunnelVars, pubVars, bridgeVars, agentVars, alen,
                newConns, dashVars>>

\* handleNewConn: protocol.WriteMessage(serverConn, TypeProxyData, ..), after
\* which the two copies start.
WireClaim ==
    /\ wAgent = "claim"
    /\ wire' = wire \o ClaimBytes
    /\ wAgent' = "copy"
    /\ UNCHANGED <<relayState, wRelay, dbuf, upIn, upOut, pwire, dnIn, dnOut>>

\* handleNewConn: io.Copy(serverConn, localConn) writes byte b of the local
\* service.
WireAgentCopy(b) ==
    /\ wAgent = "copy"
    /\ Len(upIn) < MaxLen
    /\ wire' = Append(wire, b)
    /\ upIn' = Append(upIn, b)
    /\ UNCHANGED <<relayState, wAgent, wRelay, dbuf, upOut, pwire, dnIn, dnOut>>

\* The command loop's decoder.Decode: one Read of the connection takes the
\* n bytes that have arrived into the decoder's buffer; with a whole value
\* there Decode returns and handleProxyData starts the bridge. The decoder
\* and its buffer are not used again.
WireDecode(n) ==
    /\ wRelay = "decode"
    /\ n \in 1..Len(wire)
    /\ dbuf' = dbuf \o SubSeq(wire, 1, n)
    /\ wire' = Drop(wire, n)
    /\ wRelay' = IF HasValue(dbuf') THEN "copy" ELSE "decode"
    /\ UNCHANGED <<relayState, wAgent, upIn, upOut, pwire, dnIn, dnOut>>

\* handleProxyData: io.Copy(publicConn, clientConn) reads n bytes from the
\* connection itself and writes them to the public connection.
WireCopyUp(n) ==
    /\ wRelay = "copy"
    /\ n \in 1..Len(wire)
    /\ upOut' = upOut \o SubSeq(wire, 1, n)
    /\ wire' = Drop(wire, n)
    /\ UNCHANGED <<relayState, wAgent, wRelay, dbuf, upIn, pwire, dnIn, dnOut>>

\* The public client writes byte b.
WirePublicSend(b) ==
    /\ Len(dnIn) < MaxLen
    /\ pwire' = Append(pwire, b)
    /\ dnIn' = Append(dnIn, b)
    /\ UNCHANGED <<relayState, wAgent, wRelay, wire, dbuf, upIn, upOut, dnOut>>

\* handleProxyData: io.Copy(clientConn, publicConn) reads n bytes from the
\* public connection and writes them to the data connection.
WireCopyDown(n) ==
    /\ wRelay = "copy"
    /\ n \in 1..Len(pwire)
    /\ dnOut' = dnOut \o SubSeq(pwire, 1, n)
    /\ pwire' = Drop(pwire, n)
    /\ UNCHANGED <<relayState, wAgent, wRelay, wire, dbuf, upIn, upOut, dnIn>>

\* ----------------------------------------------------- specification
\* The relay with peers that send it anything, public clients and bridges.
Init ==
    /\ portRange \in {<<>>, <<"1", "-", "1">>}
    /\ InitState

Next ==
    \/ \E c \in Conns : AcceptControl(c)
    \/ \E c \in Conns, m \in Inputs : Handshake(c, m, 0)
    \/ \E c \in Conns, m \in Inputs : ControlRead(c, m, 0)
    \/ Tick
    \/ \E t \in 1..NPorts, p \in Pubs : TunnelAccept(t, p)
    \/ \E p \in Pubs : PubNotify(p)
    \/ \E p \in Pubs : PubRollback(p)
    \/ \E p \in Pubs : Expire(p)
    \/ \E c \in Conns : BridgeUp(c)
    \/ \E c \in Conns : BridgeDown(c)
    \/ \E c \in Conns : BridgeDownOnPublicPeer(c)

Spec == Init /\ [][Next]_vars

\* The control plane: the relay with the agent, other peers and every
\* port_range value.
RegInit ==
    /\ portRange \in RangeValues
    /\ InitState

RegNext ==
    \/ \E c \in Conns : AcceptControl(c)
    \/ \E c \in Conns, m \in Inputs, k \in 0..MaxQueue : Handshake(c, m, k)
    \/ \E c \in Conns, m \in Inputs, k \in 0..MaxQueue : ControlRead(c, m, k)
    \/ \E c \in Conns : AgentDial(c)
    \/ \E k \in 0..MaxQueue : AgentAuthRead(k)
    \/ AgentRegister
    \/ \E k \in 0..MaxQueue : AgentRegRead(k)
    \/ AgentLoopRead
    \/ Heartbeat
    \/ NetDrop

RegSpec == RegInit /\ [][RegNext]_vars

\* One data connection byte by byte, from the agent's claim on.
WireInit ==
    /\ portRange = <<>>
    /\ InitState

WireNext ==
    \/ WireClaim
    \/ \E b \in Bytes : WireAgentCopy(b)
    \/ \E n \in 1..(MaxLen + Len(ClaimBytes)) : WireDecode(n)
    \/ \E n \in 1..(MaxLen + Len(ClaimBytes)) : WireCopyUp(n)
    \/ \E b \in Bytes : WirePublicSend(b)
    \/ \E n \in 1..MaxLen : WireCopyDown(n)

WireSpec == WireInit /\ [][WireNext]_vars

\* The agent with the dashboard's add requests and the public connections
\* of its tunnels, on a network that loses no connection.
AddInit ==
    /\ portRange = <<>>
    /\ InitState

\* The public connections of this specification arrive on the tunnels the
\* dashboard added.
OnDynTunnel(t) == t \in 1..Len(tunnels) /\ tunnels[t].Name \notin Names

\* The register-tunnel requests AddTunnel writes.
DynRequests ==
    {[type |-> TypeRegTunnel, valid |-> TRUE, Name |-> t.Name, RemotePort |-> t.RemotePort] :
        t \in DynTunnels}

AddNext ==
    \/ \E c \in Conns, m \in Inputs, k \in 0..MaxQueue : Handshake(c, m, k)
    \/ \E c \in Conns, m \in Inputs \cup DynRequests, k \in 0..MaxQueue : ControlRead(c, m, k)
    \/ \E c \in Conns : AgentDial(c)
    \/ \E k \in 0..MaxQueue : AgentAuthRead(k)
    \/ AgentRegister
    \/ \E k \in 0..MaxQueue : AgentRegRead(k)
    \/ AgentLoopRead
    \/ Heartbeat
    \/ \E nc \in newConns : HandleNewConn(nc)
    \/ \E r \in Adds, t \in DynTunnels : DashAddTunnel(r, t)
    \/ \E r \in Adds, k \in 0..MaxQueue : DashAddRead(r, k)
    \/ \E r \in Adds : DashAppendLoad(r)
    \/ \E r \in Adds : DashAppendStore(r)
    \/ \E t \in 1..(NPorts + 1), p \in Pubs : OnDynTunnel(t) /\ TunnelAccept(t, p)
    \/ \E p \in Pubs : PubNotify(p)
    \/ \E p \in Pubs : Expire(p)

AddSpec == AddInit /\ [][AddNext]_vars

\* ------------------------------------------------------------- claims
\* C1: whatever the interleaving of the claim handler, the expiry timer and
\* the rollback, one path only closes a public connection and decrements its
\* tunnel's live counter: no public connection is closed twice and no live
\* counter is decremented below the connections it counted.
C1_OneCleanupPath ==
    /\ \A p \in Pubs : closes[p] <= 1
    /\ \A t \in 1..Len(tunnels) : tunnels[t].ActiveConns >= 0

\* A sequence is the beginning of another.
IsPrefix(a, b) == Len(a) <= Len(b) /\ SubSeq(b, 1, Len(a)) = a

\* C2: on a claimed connection the public connection receives what the
\* agent wrote after its claim message, and nothing else, in order; the data
\* connection receives what the public client wrote, in order; once the
\* bridge has read all that arrived nothing is missing; and the message
\* decoder holds no payload byte.
C2_PayloadIntact ==
    /\ IsPrefix(upOut, upIn)
    /\ IsPrefix(dnOut, dnIn)
    /\ (wRelay = "copy" /\ wire = <<>>) => upOut = upIn
    /\ (wRelay = "copy" /\ pwire = <<>>) => dnOut = dnIn
    /\ \A i \in 1..Len(dbuf) : dbuf[i] \notin Bytes

\* C3: no accepted public connection stays open and unclaimed for ever: once
\* its expiry timer has fired, a public connection that no data connection
\* is bridging has been closed.
C3_ExpiredIsClosed ==
    \A p \in Pubs :
        (timer[p] = "fired" /\ \A c \in Conns : bpub[c] # p) => closes[p] >= 1

\* C4: two accepted public connections never have the same connection id.
C4_UniqueConnIDs ==
    \A p, q \in Pubs :
        (p # q /\ ppc[p] # "none" /\ ppc[q] # "none") => pid[p] # pid[q]

\* C5: a register-tunnel request on an authenticated connection for a free
\* port the configured range admits creates the tunnel, and every public
\* connection a tunnel's listener accepts gets its new-connection
\* notification written to the owning control connection.
C5_RegisteredThenNotified ==
    [][ /\ \A c \in Conns, req \in RegMsgs :
              ( /\ req.valid
                /\ RangeAdmits(portRange, req.RemotePort)
                /\ PortFree(req.RemotePort)
                /\ ControlRead(c, req, 0) )
              => tunnels' = Append(tunnels, NewTunnel(c, req))
        /\ \A p \in Pubs :
              (ppc[p] = "inserted" /\ ppc'[p] # "inserted") => ppc'[p] = "notified"
      ]_vars

\* C6: whatever non-empty value port_range has, a register-tunnel request
\* for a port outside it is refused: no Tunnel record and no listener exist
\* for such a port, and the agent's registration of such a port failed.
C6_OutsideRefused ==
    /\ \A t \in 1..Len(tunnels) : ~RangeOutside(portRange, tunnels[t].RemotePort)
    /\ \A i \in 1..Len(ares) :
           RangeOutside(portRange, acfg[i].RemotePort) => ares[i] = "err"

\* C7: a connection whose first message was not an authenticate request with
\* the configured token is closed by the handshake and never gets further:
\* it never reaches the command loop, owns no tunnel and bridges no public
\* connection.
C7_UnauthenticatedInert ==
    \A c \in Conns :
        ~goodAuth[c] =>
            /\ cstate[c] \in {"none", "handshake", "closed"}
            /\ bpub[c] = 0
            /\ \A t \in 1..Len(tunnels) : tunnels[t].ControlConn # c

\* C7, its case: a refused connection is closed while an authenticated one
\* owns a tunnel with a public connection waiting to be claimed.
C7_RefusedBesideTunnel ==
    \E c, d \in Conns :
        /\ cstate[c] = "closed" /\ ~goodAuth[c]
        /\ goodAuth[d]
        /\ \E t \in 1..Len(tunnels) : tunnels[t].ControlConn = d
        /\ pendingConns # <<>>

\* C8: a register-tunnel request for a port another tunnel has bound gets a
\* failure response, changes no Tunnel and no registry entry and leaves the
\* connection in the command loop; the agent that reads the failure response
\* records the failure and goes on with the same session.
C8_BindConflictNotFatal ==
    [][ /\ \A c \in Conns, req \in RegMsgs, k \in 0..1 :
              (req.valid /\ ~PortFree(req.RemotePort) /\ ControlRead(c, req, k)) =>
                  /\ tunnels' = tunnels
                  /\ tunnelMgr' = tunnelMgr
                  /\ cstate'[c] = "ready"
                  /\ c = aconn =>
                        /\ Len(toAgent'[c]) = Len(toAgent[c]) + 1
                        /\ toAgent'[c][Len(toAgent'[c])].type = TypeRegResp
                        /\ ~toAgent'[c][Len(toAgent'[c])].Success
        /\ ( /\ apc = "regwait"
             /\ AgentCanRead
             /\ AgentMsg.type = TypeRegResp
             /\ ~AgentMsg.Success
             /\ apc' # "regwait" ) =>
                  /\ aconn' = aconn
                  /\ apc' \in {"reg", "loop"}
                  /\ ares' = Append(ares, "err")
      ]_vars

\* C8, its case: the agent's first tunnel was refused because another
\* connection's tunnel holds its port, its second tunnel is registered on
\* the same session, and the session is in its command loop.
C8_SkippedAndContinued ==
    /\ portRange = <<>>
    /\ aconn # 0
    /\ apc = "loop"
    /\ cstate[aconn] = "ready"
    /\ ares = <<"err", "ok">>
    /\ \E t \in 1..Len(tunnels) :
           tunnels[t].RemotePort = acfg[1].RemotePort /\ tunnels[t].ControlConn # aconn
    /\ \E t \in 1..Len(tunnels) :
           tunnels[t].RemotePort = acfg[2].RemotePort /\ tunnels[t].ControlConn = aconn

\* C9: once a control connection's handler has returned, no tunnel it owns
\* is left: none has its listener open and none is in the Tunnel Registry.
C9_ClosedOwnsNothing ==
    \A t \in 1..Len(tunnels) :
        cstate[tunnels[t].ControlConn] = "closed" =>
            /\ tunnels[t].Listener # "open"
            /\ \A n \in Names : tunnelMgr[n] # t

\* C10: in a bridge, once the copy from the data connection to the public
\* connection has ended, the other copy can end and the bridge be closed
\* without anything more from the public client.
C10_FirstEndTearsDown ==
    \A c \in Conns : (cstate[c] = "bridging" /\ upDone[c]) => DownCanEnd(c)

\* C11: whatever the interleaving of the dashboard's add requests, the
\* configured tunnel list never has two entries with one name.
C11_NoDuplicateName ==
    \A i, j \in 1..Len(acfg) : i # j => acfg[i].Name # acfg[j].Name

\* The relay's response to the register-tunnel request of add request r
\* waits on the control connection.
AddResponseQueued(r) ==
    /\ aconn # 0
    /\ \E j \in 1..Len(toAgent[aconn]) :
           toAgent[aconn][j].type = TypeRegResp /\ toAgent[aconn][j].Name = dtun[r].Name

\* C12: AddTunnel on a connected agent returns success only on the relay's
\* success response to its own request; and beside the session's read loop
\* the response the relay wrote stays on the connection until the waiting
\* AddTunnel takes it, so that the call returns and releases the lock.
C12_AddTunnelReturns ==
    [][ \A r \in Adds :
            /\ (dpc[r] = "wait" /\ dpc'[r] = "append") =>
                   /\ AgentMsg.type = TypeRegResp
                   /\ AgentMsg.Name = dtun[r].Name
                   /\ AgentMsg.Success
            /\ (dpc[r] = "wait" /\ apc = "loop" /\ AddResponseQueued(r)) =>
                   (dpc'[r] # "wait" \/ AddResponseQueued(r)')
      ]_vars

\* C19: a new-connection notification for a tunnel that one add request
\* named, and whose AddTunnel has returned success, is not dropped as an
\* unknown tunnel. The relay notifies for a registered tunnel only, so the
\* live registration of that request succeeded before the notification.
C19_AddedTunnelResolved ==
    \A nc \in newConns, r \in Adds :
        ( /\ dtun[r].Name = nc.TunnelName
          /\ dpc[r] \in {"append", "store", "ok"}
          /\ \A q \in Adds \ {r} : dtun[q].Name # nc.TunnelName ) =>
            nc.st # "unknown"

\* C13: a claim for an id that is not in the pending registry ends the
\* claiming connection and nothing else: the pending registry, the tunnels
\* and their live counters, the other connections, the bridges, the public
\* connections and their timers are as before.
C13_MissEndsClaimerOnly ==
    [][ \A c \in Conns, req \in ProxyMsgs :
            ( /\ req.valid
              /\ req.ConnID \notin DOMAIN pendingConns
              /\ ControlRead(c, req, 0) ) =>
                /\ cstate'[c] = "closed"
                /\ \A d \in Conns \ {c} : cstate'[d] = cstate[d]
                /\ UNCHANGED <<pendingConns, tunnels, tunnelMgr, bridgeVars, closes, timer,
                               ppc>>
      ]_vars

\* C13, its case: an authenticated connection has been closed while another
\* connection's bridge runs and a connection id that can be missed is
\* pending.
C13_MissBesideBridge ==
    \E c, d \in Conns :
        /\ cstate[c] = "closed" /\ goodAuth[c]
        /\ cstate[d] = "bridging"
        /\ pendingConns # <<>>
        /\ \E i \in IDs : i \notin DOMAIN pendingConns

\* C14: a connection the handshake has closed on a first message that is
\* not an authenticate request with the configured token was sent an
\* authenticate-response with success=false first. (A connection that ended
\* before a first message was read, or whose authenticate request could not
\* be parsed, is not one of these.)
C14_FailureIsAnswered ==
    [][ \A c \in Conns, m \in AuthMsgs \cup RegMsgs \cup ProxyMsgs \cup PlainMsgs,
           k \in 0..MaxQueue :
            ( /\ m.type = TypeAuth => m.valid
              /\ Handshake(c, m, k)
              /\ cstate'[c] = "closed" ) => authResp'[c] = "fail"
      ]_vars

\* C15: a public connection whose notification could not be written is
\* rolled back completely and once: after the rollback its id is not in the
\* pending registry, it has been closed exactly once, its expiry timer was
\* never armed, and its tunnel's live counter counts no connection that is
\* gone.
C15_RollbackComplete ==
    \A p \in Pubs :
        ppc[p] = "rolledback" =>
            /\ closes[p] = 1
            /\ timer[p] = "off"
            /\ tunnels[ptun[p]].ActiveConns >= 0

ResponseWaits(success) ==
    \E j \in 1..Len(toAgent[aconn]) :
        /\ toAgent[aconn][j].type = TypeRegResp
        /\ toAgent[aconn][j].Name = acfg[aidx].Name
        /\ toAgent[aconn][j].Success = success

\* C17: in the registration phase the agent takes a tunnel as registered
\* exactly when the relay's response to its request reports success,
\* whatever else the relay has written on the connection: when registerTunnel
\* returns with that response waiting, its result is the response's.
C17_RegisteredIffSuccess ==
    [][ (apc = "regwait" /\ Len(ares') = Len(ares) + 1) =>
            /\ ResponseWaits(TRUE) => ares'[Len(ares')] = "ok"
            /\ ResponseWaits(FALSE) => ares'[Len(ares')] = "err"
      ]_vars

\* C18: a heartbeat whose ping write fails ends the session: with the end of
\* that heartbeat Start returns and the control connection is closed.
C18_PingFailureFatal ==
    [][ (aconn # 0 /\ hb' = hb - 1) => (aconn' = 0 /\ apc' = "idle") ]_vars

\* C20: after the handshake a message of a type the receiver does not handle
\* is read and nothing else happens: on the relay no connection, tunnel,
\* registry, counter or bridge changes and no response is written; on the
\* agent the session stays as it is.
C20_UnhandledIgnored ==
    [][ /\ \A c \in Conns, m \in AuthMsgs \cup PlainMsgs, k \in 0..1 :
              (m.type # TypePing /\ ControlRead(c, m, k)) =>
                  UNCHANGED <<cstate, goodAuth, toAgent, tunnelVars, pubVars, bridgeVars,
                              agentVars>>
        /\ ( /\ apc = "loop"
             /\ AgentCanRead
             /\ AgentMsg.type \notin {TypeNewConn, TypePong, "EOF"}
             /\ AgentLoopRead ) =>
                  /\ toAgent'[aconn] = Tail(toAgent[aconn])
                  /\ UNCHANGED <<cstate, toRelay, tunnelVars, agentVars>>
      ]_vars

\* C20, its case: the agent's command loop is about to read a message it
\* does not handle, on a connection the relay holds in its command loop.
C20_UnhandledAtHead ==
    /\ aconn # 0
    /\ apc = "loop"
    /\ cstate[aconn] = "ready"
    /\ toAgent[aconn] # <<>>
    /\ AgentMsg.type \in {TypeAuthResp, TypeRegResp}

\* The agent's configuration has a tunnel of this name.
Configured(name) == \E i \in 1..Len(acfg) : acfg[i].Name = name

\* C21: every new-connection notification that a Decode of the agent takes
\* off its control connection, for a tunnel of its configuration, has a
\* data-connection handler afterwards, whichever of Start's command loop,
\* its registration phase or AddTunnel did the Decode.
C21_NotificationSpawns ==
    [][ (aconn # 0 /\ aconn' = aconn /\ Len(toAgent'[aconn]) < Len(toAgent[aconn])) =>
            \A j \in 1..(Len(toAgent[aconn]) - Len(toAgent'[aconn])) :
                (toAgent[aconn][j].type = TypeNewConn /\ Configured(toAgent[aconn][j].TunnelName)) =>
                    \E nc \in newConns' :
                        /\ nc.ConnID = toAgent[aconn][j].ConnID
                        /\ nc.TunnelName = toAgent[aconn][j].TunnelName
      ]_vars

\* The public connections tunnel t accepted that the relay has not closed.
OpenOn(t) == {p \in Pubs : ppc[p] # "none" /\ ptun[p] = t /\ closes[p] = 0}

\* C22: for every tunnel the live connection counter is the number of its
\* accepted public connections that are still open; so it is never negative
\* and it is zero once all of them are closed.
C22_CounterCountsOpen ==
    \A t \in 1..Len(tunnels) : tunnels[t].ActiveConns = Cardinality(OpenOn(t))

\* C23: every tunnel whose public listener is open is the record the Tunnel
\* Registry holds under its name, so that GetStatus reports it: a later
\* successful register-tunnel does not take its place.
C23_OpenListenerListed ==
    \A t \in 1..Len(tunnels) :
        tunnels[t].Listener = "open" => tunnelMgr[tunnels[t].Name] = t

\* C24: the relay writes no new-connection notification to a connection
\* that a claim-data-connection has turned into a data connection: a
\* notification is written only while its tunnel's control connection is
\* not bridging.
C24_NoMessageIntoBridge ==
    [][ \A p \in Pubs :
            (ppc[p] = "inserted" /\ ppc'[p] = "notified") =>
                cstate[tunnels[ptun[p]].ControlConn] # "bridging"
      ]_vars

\* C25: a ping is written on the agent's control connection only by the
\* heartbeat task of the session that owns it: when a ping is written the
\* session is in its command loop, having started its heartbeat, and that
\* heartbeat is the only one running.
C25_OneHeartbeatPerSession ==
    [][ ( /\ aconn # 0
          /\ Len(toRelay'[aconn]) = Len(toRelay[aconn]) + 1
          /\ toRelay'[aconn][Len(toRelay'[aconn])].type = TypePing ) =>
            (apc = "loop" /\ hb = 1)
      ]_vars

====
